---- MODULE Spec2Model ----
(***************************************************************************)
(* xxhash-c: safe Rust bindings to xxHash (src/src/lib.rs).                *)
(*                                                                         *)
(* The crate is a thin wrapper: every public function forwards to a        *)
(* function of the xxhash_c_sys crate (the C library).  The wrappers are   *)
(* translated from src/src/lib.rs.  The C functions (prefix sys) are not   *)
(* part of the crate's sources; they are modelled from the design          *)
(* description (stripes folded into accumulator lanes, a pending tail      *)
(* shorter than one stripe, a total length counter, customization by seed  *)
(* or secret) on words of WordBits bits instead of 64.                     *)
(***************************************************************************)
EXTENDS Integers, Sequences, FiniteSets, TLC

(***************************************************************************)
(* Bounds of the model.                                                    *)
(***************************************************************************)
\* width of a machine word of the scaled arithmetic (64 in the library)
WordBits == 6
\* bytes of one stripe of the scaled algorithms, one byte per accumulator lane
StripeLen == 2
\* longest total input written between two resets
MaxLen == 4
\* longest slice passed to one write call or one-shot call
MaxChunk == 3

W == 2 ^ WordBits
Word == 0 .. (W - 1)
Byte == {0, 1}

RECURSIVE SeqsUpTo(_)
SeqsUpTo(n) ==
  IF n = 0 THEN {<< >>}
  ELSE LET shorter == SeqsUpTo(n - 1)
       IN shorter \cup {Append(s, b) : s \in {t \in shorter : Len(t) = n - 1}, b \in Byte}

\* the slices a caller passes to write or to a one-shot function
Slices == SeqsUpTo(MaxChunk)
\* the seeds a caller passes (0 is the default seed; 5 is the tests' seed)
Seeds == {0, 5}

(***************************************************************************)
(* xxhash_c_sys: constants and return codes.                               *)
(***************************************************************************)
XXH_OK == "XXH_OK"
XXH_ERROR == "XXH_ERROR"

\* minimum length of a caller supplied secret
XXH3_SECRET_SIZE_MIN == 8

PRIME_1 == 37
PRIME_2 == 59
PRIME_3 == 43
PRIME_5 == 29

\* the built-in secret table of XXH3
kSecret == [i \in 1 .. XXH3_SECRET_SIZE_MIN |-> (i * 23 + 11) % W]
\* the secrets a caller passes: a valid one (as the tests' SECRET) and two too short
SECRET == [i \in 1 .. (XXH3_SECRET_SIZE_MIN + 1) |-> (i * 7 + 3) % W]
ShortSecret == [i \in 1 .. (XXH3_SECRET_SIZE_MIN - 1) |-> (i * 7 + 3) % W]
Secrets == {SECRET, ShortSecret}

(***************************************************************************)
(* Word arithmetic.                                                        *)
(***************************************************************************)
RECURSIVE Xor(_, _)
Xor(a, b) ==
  IF a = 0 THEN b
  ELSE IF b = 0 THEN a
  ELSE ((a + b) % 2) + 2 * Xor(a \div 2, b \div 2)

Rotl(x, r) == ((x * (2 ^ r)) % W) + (x \div (2 ^ (WordBits - r)))

\* final bit mixing of every variant
Avalanche(h) ==
  LET h1 == Xor(h, h \div 8)
      h2 == (h1 * PRIME_2) % W
      h3 == Xor(h2, h2 \div 4)
      h4 == (h3 * PRIME_3) % W
  IN Xor(h4, h4 \div 8)

(***************************************************************************)
(* XXH32 / XXH64: seed customized, one accumulator lane per stripe byte.   *)
(***************************************************************************)
XXH64_round(acc, input) == (Rotl((acc + input * PRIME_2) % W, 1) * PRIME_1) % W

\* accumulator lanes of a freshly reset state
XXH64_lanes(seed) == [i \in 1 .. StripeLen |-> (seed + i * PRIME_2 + PRIME_1) % W]

\* fold the stripe that starts at data[from] into the lanes
XXH64_stripe(v, data, from) ==
  [i \in 1 .. StripeLen |-> XXH64_round(v[i], data[from + i - 1])]

RECURSIVE XXH64_merge(_, _)
XXH64_merge(v, i) ==
  IF i = 0 THEN 0
  ELSE (XXH64_merge(v, i - 1) * PRIME_1 + Rotl(v[i], 1) + PRIME_3) % W

\* length-aware mixing of the trailing partial stripe data[from .. Len(data)]
RECURSIVE XXH64_tail(_, _, _)
XXH64_tail(h, data, from) ==
  IF from > Len(data) THEN Avalanche(h)
  ELSE XXH64_tail((Rotl(Xor(h, (data[from] * PRIME_5) % W), 2) * PRIME_1) % W,
                  data, from + 1)

\* one pass over the whole buffer
RECURSIVE XXH64_loop(_, _, _)
XXH64_loop(v, data, from) ==
  IF from + StripeLen - 1 > Len(data) THEN [v |-> v, from |-> from]
  ELSE XXH64_loop(XXH64_stripe(v, data, from), data, from + StripeLen)

sys_XXH64(input, len, seed) ==
  LET data == SubSeq(input, 1, len)
      run == XXH64_loop(XXH64_lanes(seed), data, 1)
      h0 == IF len >= StripeLen THEN XXH64_merge(run.v, StripeLen)
            ELSE (seed + PRIME_5) % W
  IN XXH64_tail((h0 + len) % W, data, run.from)

\* the 32 bit variant: same schedule, other multiplier in the length mix
sys_XXH32(input, len, seed) ==
  LET data == SubSeq(input, 1, len)
      run == XXH64_loop(XXH64_lanes(seed), data, 1)
      h0 == IF len >= StripeLen THEN XXH64_merge(run.v, StripeLen)
            ELSE (seed + PRIME_5) % W
  IN XXH64_tail((h0 + len * PRIME_3) % W, data, run.from)

\* XXH64_state_t after XXH64_reset
sys_XXH64_reset(seed) ==
  [rc |-> XXH_OK,
   st |-> [total_len |-> 0, v |-> XXH64_lanes(seed), mem |-> << >>, seed |-> seed]]

\* fill the pending buffer, fold every complete stripe, keep the rest
XXH64_consume(st, data) ==
  IF Len(st.mem) + Len(data) < StripeLen
  THEN [st EXCEPT !.total_len = @ + Len(data), !.mem = @ \o data]
  ELSE LET fill == StripeLen - Len(st.mem)
           first == st.mem \o SubSeq(data, 1, fill)
           v1 == XXH64_stripe(st.v, first, 1)
           run == XXH64_loop(v1, data, fill + 1)
       IN [st EXCEPT !.total_len = @ + Len(data),
                     !.v = run.v,
                     !.mem = SubSeq(data, run.from, Len(data))]

\* XXH64_update reads len bytes at input; it has no failing path for a slice
sys_XXH64_update(st, input, len) ==
  [rc |-> XXH_OK, st |-> XXH64_consume(st, SubSeq(input, 1, len))]

\* XXH64_digest: reads the state, never writes it
sys_XXH64_digest(st) ==
  LET h0 == IF st.total_len >= StripeLen THEN XXH64_merge(st.v, StripeLen)
            ELSE (st.seed + PRIME_5) % W
  IN XXH64_tail((h0 + st.total_len) % W, st.mem, 1)

(***************************************************************************)
(* XXH3: customized by a secret; a seed perturbs the built-in secret.      *)
(***************************************************************************)
\* the key schedule of a seed: added to the odd words, subtracted from the even
XXH3_initCustomSecret(seed) ==
  [i \in 1 .. Len(kSecret) |->
     IF i % 2 = 1 THEN (kSecret[i] + seed) % W ELSE (kSecret[i] + W - (seed % W)) % W]

XXH3_INIT_ACC == [i \in 1 .. StripeLen |-> (i * PRIME_3 + PRIME_5) % W]

\* fold the stripe that starts at data[from] into the lanes, keyed by the secret
XXH3_accumulate(acc, data, from, secret) ==
  [i \in 1 .. StripeLen |->
     (Rotl(acc[i], 1) + Xor(data[from + i - 1], secret[i]) * PRIME_1 + data[from + i - 1]) % W]

RECURSIVE XXH3_loop(_, _, _, _)
XXH3_loop(acc, data, from, secret) ==
  IF from + StripeLen - 1 > Len(data) THEN [acc |-> acc, from |-> from]
  ELSE XXH3_loop(XXH3_accumulate(acc, data, from, secret), data, from + StripeLen, secret)

\* merge the lanes with the last words of the secret
RECURSIVE XXH3_mergeAccs(_, _, _)
XXH3_mergeAccs(acc, secret, i) ==
  IF i = 0 THEN 0
  ELSE (XXH3_mergeAccs(acc, secret, i - 1) * PRIME_2
        + Xor(acc[i], secret[Len(secret) - StripeLen + i])) % W

\* length-aware mixing of the trailing partial stripe, keyed by the secret
RECURSIVE XXH3_tail(_, _, _, _, _)
XXH3_tail(h, data, from, k, secret) ==
  IF from > Len(data) THEN Avalanche(h)
  ELSE XXH3_tail((Rotl(Xor(h, Xor(data[from], secret[k])), 2) * PRIME_3 + 1) % W,
                 data, from + 1, k + 1, secret)

XXH3_start(acc, total, seed, secret) ==
  LET h0 == IF total >= StripeLen THEN XXH3_mergeAccs(acc, secret, StripeLen)
            ELSE Xor(secret[1], (seed + PRIME_5) % W)
  IN (h0 + total * PRIME_1) % W

sys_XXH3_64bits_internal(input, len, seed, secret) ==
  LET data == SubSeq(input, 1, len)
      run == XXH3_loop(XXH3_INIT_ACC, data, 1, secret)
  IN XXH3_tail(XXH3_start(run.acc, len, seed, secret), data, run.from, 1, secret)

sys_XXH3_64bits(input, len) == sys_XXH3_64bits_internal(input, len, 0, kSecret)
sys_XXH3_64bits_withSeed(input, len, seed) ==
  sys_XXH3_64bits_internal(input, len, seed, XXH3_initCustomSecret(seed))
sys_XXH3_64bits_withSecret(input, len, secret) ==
  sys_XXH3_64bits_internal(input, len, 0, secret)

\* XXH128_hash_t: the 64 bit digest and a second mix of it
sys_XXH3_128bits(input, len) ==
  LET low == sys_XXH3_64bits(input, len)
  IN [low64 |-> low, high64 |-> Avalanche((low * PRIME_5 + len + PRIME_2) % W)]

XXH3_reset_internal(seed, secret) ==
  [totalLen |-> 0, acc |-> XXH3_INIT_ACC, buffer |-> << >>, seed |-> seed, secret |-> secret]

sys_XXH3_64bits_reset(st) ==
  {[rc |-> XXH_OK, st |-> XXH3_reset_internal(0, kSecret)]}

sys_XXH3_64bits_reset_withSeed(st, seed) ==
  {[rc |-> XXH_OK, st |-> XXH3_reset_internal(seed, XXH3_initCustomSecret(seed))]}

\* A secret shorter than the minimum is refused with XXH_ERROR; whether the state
\* was rewritten before the refusal is not specified: both outcomes are kept.
sys_XXH3_64bits_reset_withSecret(st, secret, secretSize) ==
  IF secretSize < XXH3_SECRET_SIZE_MIN
  THEN {[rc |-> XXH_ERROR, wrote |-> FALSE, st |-> st],
        [rc |-> XXH_ERROR, wrote |-> TRUE,
         st |-> XXH3_reset_internal(0, SubSeq(secret, 1, secretSize))]}
  ELSE {[rc |-> XXH_OK, wrote |-> TRUE,
         st |-> XXH3_reset_internal(0, SubSeq(secret, 1, secretSize))]}

XXH3_consume(st, data) ==
  IF Len(st.buffer) + Len(data) < StripeLen
  THEN [st EXCEPT !.totalLen = @ + Len(data), !.buffer = @ \o data]
  ELSE LET fill == StripeLen - Len(st.buffer)
           first == st.buffer \o SubSeq(data, 1, fill)
           a1 == XXH3_accumulate(st.acc, first, 1, st.secret)
           run == XXH3_loop(a1, data, fill + 1, st.secret)
       IN [st EXCEPT !.totalLen = @ + Len(data),
                     !.acc = run.acc,
                     !.buffer = SubSeq(data, run.from, Len(data))]

sys_XXH3_64bits_update(st, input, len) ==
  [rc |-> XXH_OK, st |-> XXH3_consume(st, SubSeq(input, 1, len))]

sys_XXH3_64bits_digest(st) ==
  XXH3_tail(XXH3_start(st.acc, st.totalLen, st.seed, st.secret), st.buffer, 1, 1, st.secret)

(***************************************************************************)
(* The program state: one streaming hasher of either kind, and the last    *)
(* public call with what it returned.                                      *)
(***************************************************************************)
VARIABLES
  debug,      \* the build has debug assertions (debug_assert!) compiled in
  kind,       \* "none", "XXH64" or "XXH3_64": the hasher the caller holds
  via,        \* how it was obtained: "new" or "uninit"
  state,      \* the MaybeUninit<XXH64_state_t> / MaybeUninit<XXH3_state_t> memory
  init,       \* the memory has been written by a reset
  valid,      \* the last reset returned XXH_OK
  policy,     \* the policy of the last reset that rewrote the state
  asked,      \* the policy passed to the last constructor or reset call
  prior,      \* before the last reset: was there use, another policy, written bytes
  written,    \* the bytes passed to write since the last reset
  lastOp,     \* the last public call
  prevFinish, \* the call before the last one was finish
  arg,        \* the length of the slice passed to the last call
  ret,        \* what the last call returned to its caller
  rc,         \* the XXH_errorcode the last wrapped call produced
  panicked    \* a debug assertion failed

vars == <<debug, kind, via, state, init, valid, policy, asked, prior, written,
          lastOp, prevFinish, arg, ret, rc, panicked>>

NoState == [none |-> TRUE]
NoPolicy == [tag |-> "none", seed |-> 0, secret |-> << >>]
NoPrior == [any |-> FALSE, differs |-> FALSE, dirty |-> FALSE]
Unit == [tag |-> "unit", val |-> 0]
U64(x) == [tag |-> "u64", val |-> x]

Seed64(seed) == [tag |-> "Seed64", seed |-> seed, secret |-> << >>]
Xxh3DefaultReset == [tag |-> "Default", seed |-> 0, secret |-> << >>]
Seeded(seed) == [tag |-> "Seeded", seed |-> seed, secret |-> << >>]
SecretBytes(secret) == [tag |-> "Secret", seed |-> 0, secret |-> secret]
Xxh3Policies ==
  {Xxh3DefaultReset} \cup {Seeded(s) : s \in Seeds} \cup {SecretBytes(S) : S \in Secrets}

\* contents a MaybeUninit::uninit() memory can have: all zero, or leftovers
Garbage64 ==
  {[total_len |-> 0, v |-> [i \in 1 .. StripeLen |-> 0], mem |-> << >>, seed |-> 0],
   [total_len |-> StripeLen, v |-> XXH64_lanes(1), mem |-> <<1>>, seed |-> 1]}
Garbage3 ==
  {[totalLen |-> 0, acc |-> [i \in 1 .. StripeLen |-> 0], buffer |-> << >>,
    seed |-> 0, secret |-> [i \in 1 .. XXH3_SECRET_SIZE_MIN |-> 0]],
   [totalLen |-> StripeLen, acc |-> XXH3_INIT_ACC, buffer |-> <<1>>,
    seed |-> 1, secret |-> kSecret]}

\* debug_assert!(cond): panics when debug assertions are compiled in
DebugAssertFails(cond) == debug /\ ~cond

(***************************************************************************)
(* One-shot functions.                                                     *)
(***************************************************************************)
xxh32(input, seed) == sys_XXH32(input, Len(input), seed)
xxh64(input, seed) == sys_XXH64(input, Len(input), seed)
xxh3_64(input) == sys_XXH3_64bits(input, Len(input))
xxh3_128(input) ==
  LET result == sys_XXH3_128bits(input, Len(input))
  IN result.high64 * W + result.low64

(***************************************************************************)
(* XXH64: the streaming wrapper.                                           *)
(***************************************************************************)
XXH64_uninit(mem) == [st |-> mem, init |-> FALSE, rc |-> XXH_OK, panic |-> FALSE]

\* variant: the seed is stored but the accumulated input is kept
XXH64_reset_keep(st, seed) ==
  [st |-> [st EXCEPT !.seed = seed], init |-> TRUE, rc |-> XXH_OK, panic |-> FALSE]

XXH64_reset(st, seed) ==
  LET result == sys_XXH64_reset(seed)
  IN [st |-> result.st, init |-> TRUE, rc |-> result.rc,
      panic |-> DebugAssertFails(result.rc = XXH_OK)]

\* variant: construction without the reset
XXH64_new_noReset(mem, seed) == XXH64_uninit(mem)

XXH64_new(mem, seed) == XXH64_reset(XXH64_uninit(mem).st, seed)

\* variant: a digest that also starts the hasher over
XXH64_finish_consuming(st) ==
  [ret |-> sys_XXH64_digest(st), st |-> sys_XXH64_reset(st.seed).st]

XXH64_finish(st) == [ret |-> sys_XXH64_digest(st), st |-> st]

\* variant: the assertion on the update result is inverted
XXH64_write_assertNe(st, input) ==
  LET result == sys_XXH64_update(st, input, Len(input))
  IN [st |-> result.st, rc |-> result.rc,
      panic |-> DebugAssertFails(result.rc # XXH_OK)]

\* variant: the length passed with the pointer is one short
XXH64_write_short(st, input) ==
  LET result == sys_XXH64_update(st, input, IF Len(input) = 0 THEN 0 ELSE Len(input) - 1)
  IN [st |-> result.st, rc |-> result.rc,
      panic |-> DebugAssertFails(result.rc = XXH_OK)]

XXH64_write(st, input) ==
  LET result == sys_XXH64_update(st, input, Len(input))
  IN [st |-> result.st, rc |-> result.rc,
      panic |-> DebugAssertFails(result.rc = XXH_OK)]

(***************************************************************************)
(* XXH3_64: reset policies and the streaming wrapper.                      *)
(***************************************************************************)
\* each policy yields the outcomes of its reset call: the state, whether it was
\* written, the error code and whether a debug assertion failed
Xxh3Reset_Default(st) ==
  {[st |-> r.st, wrote |-> TRUE, rc |-> r.rc, panic |-> DebugAssertFails(r.rc = XXH_OK)]
     : r \in sys_XXH3_64bits_reset(st)}

\* variant: the seed reaches the library changed
Xxh3Reset_u64_offByOne(st, seed) ==
  {[st |-> r.st, wrote |-> TRUE, rc |-> r.rc, panic |-> DebugAssertFails(r.rc = XXH_OK)]
     : r \in sys_XXH3_64bits_reset_withSeed(st, seed + 1)}

Xxh3Reset_u64(st, seed) ==
  {[st |-> r.st, wrote |-> TRUE, rc |-> r.rc, panic |-> DebugAssertFails(r.rc = XXH_OK)]
     : r \in sys_XXH3_64bits_reset_withSeed(st, seed)}

Xxh3Reset_slice(st, secret) ==
  IF DebugAssertFails(Len(secret) >= XXH3_SECRET_SIZE_MIN)
  THEN {[st |-> st, wrote |-> FALSE, rc |-> XXH_OK, panic |-> TRUE]}
  ELSE {[st |-> r.st, wrote |-> r.wrote, rc |-> r.rc,
         panic |-> DebugAssertFails(r.rc = XXH_OK)]
          : r \in sys_XXH3_64bits_reset_withSecret(st, secret, Len(secret))}

XXH3_64_reset(st, reset) ==
  CASE reset.tag = "Default" -> Xxh3Reset_Default(st)
    [] reset.tag = "Seeded" -> Xxh3Reset_u64(st, reset.seed)
    [] reset.tag = "Secret" -> Xxh3Reset_slice(st, reset.secret)

XXH3_64_uninit(mem) == [st |-> mem, wrote |-> FALSE, rc |-> XXH_OK, panic |-> FALSE]

XXH3_64_new(mem) == XXH3_64_reset(XXH3_64_uninit(mem).st, Xxh3DefaultReset)

XXH3_64_finish(st) == [ret |-> sys_XXH3_64bits_digest(st), st |-> st]

\* variant: the length passed with the pointer is one short
XXH3_64_write_short(st, input) ==
  LET result == sys_XXH3_64bits_update(st, input, IF Len(input) = 0 THEN 0 ELSE Len(input) - 1)
  IN [st |-> result.st, rc |-> result.rc,
      panic |-> DebugAssertFails(result.rc = XXH_OK)]

XXH3_64_write(st, input) ==
  LET result == sys_XXH3_64bits_update(st, input, Len(input))
  IN [st |-> result.st, rc |-> result.rc,
      panic |-> DebugAssertFails(result.rc = XXH_OK)]

(***************************************************************************)
(* The public calls as steps of a caller.                                  *)
(***************************************************************************)
Init ==
  /\ debug \in BOOLEAN
  /\ kind = "none"
  /\ via = "none"
  /\ state = NoState
  /\ init = FALSE
  /\ valid = FALSE
  /\ policy = NoPolicy
  /\ asked = NoPolicy
  /\ prior = NoPrior
  /\ written = << >>
  /\ lastOp = "none"
  /\ prevFinish = FALSE
  /\ arg = 0
  /\ ret = Unit
  /\ rc = XXH_OK
  /\ panicked = FALSE

\* a call that is not a write: the common bookkeeping
Called(op, result) ==
  /\ lastOp' = op
  /\ prevFinish' = (lastOp = "finish")
  /\ arg' = 0
  /\ ret' = result
  /\ UNCHANGED debug

Constructed(k, how, r, p) ==
  /\ kind' = k
  /\ via' = how
  /\ state' = r.st
  /\ init' = r.init
  /\ valid' = (r.init /\ r.rc = XXH_OK)
  /\ policy' = p
  /\ asked' = p
  /\ prior' = NoPrior
  /\ written' = << >>
  /\ rc' = r.rc
  /\ panicked' = r.panic

\* r.wrote: the call rewrote the state; when it did not (the assertion failed
\* before the call, or the library refused without touching the state) the
\* hasher still holds what it held
WasReset(r, p, wrote) ==
  /\ state' = r.st
  /\ init' = (init \/ wrote)
  /\ valid' = (wrote /\ r.rc = XXH_OK /\ ~r.panic)
  /\ prior' = IF wrote
              THEN [any |-> TRUE, differs |-> policy # p, dirty |-> written # << >>]
              ELSE prior
  /\ policy' = IF wrote THEN p ELSE policy
  /\ asked' = p
  /\ written' = IF wrote THEN << >> ELSE written
  /\ rc' = r.rc
  /\ panicked' = r.panic
  /\ UNCHANGED <<kind, via>>

Do_XXH64_uninit ==
  /\ ~panicked /\ kind = "none"
  /\ \E mem \in Garbage64 :
       Constructed("XXH64", "uninit", XXH64_uninit(mem), NoPolicy)
  /\ Called("uninit", Unit)

Do_XXH64_new ==
  /\ ~panicked /\ kind = "none"
  /\ \E mem \in Garbage64, seed \in Seeds :
       Constructed("XXH64", "new", XXH64_new(mem, seed), Seed64(seed))
  /\ Called("new", Unit)

\* impl Default for XXH64
Do_XXH64_default ==
  /\ ~panicked /\ kind = "none"
  /\ \E mem \in Garbage64 :
       Constructed("XXH64", "new", XXH64_new(mem, 0), Seed64(0))
  /\ Called("default", Unit)

Do_XXH64_reset ==
  /\ ~panicked /\ kind = "XXH64"
  /\ \E seed \in Seeds :
       LET r == XXH64_reset(state, seed) IN WasReset(r, Seed64(seed), r.init)
  /\ Called("reset", Unit)

Do_XXH64_finish ==
  /\ ~panicked /\ kind = "XXH64"
  /\ LET r == XXH64_finish(state)
     IN /\ state' = r.st
        /\ Called("finish", U64(r.ret))
  /\ UNCHANGED <<kind, via, init, valid, policy, asked, prior, written, rc, panicked>>

Do_XXH64_write ==
  /\ ~panicked /\ kind = "XXH64"
  /\ \E input \in Slices :
       /\ Len(written) + Len(input) <= MaxLen
       /\ LET r == XXH64_write(state, input)
          IN /\ state' = r.st
             /\ rc' = r.rc
             /\ panicked' = r.panic
       /\ written' = written \o input
       /\ arg' = Len(input)
  /\ lastOp' = "write"
  /\ prevFinish' = (lastOp = "finish")
  /\ ret' = Unit
  /\ UNCHANGED <<debug, kind, via, init, valid, policy, asked, prior>>

XXH3_Constructed(how, r, p) ==
  Constructed("XXH3_64", how,
              [st |-> r.st, init |-> r.wrote, rc |-> r.rc, panic |-> r.panic], p)

Do_XXH3_64_uninit ==
  /\ ~panicked /\ kind = "none"
  /\ \E mem \in Garbage3 : XXH3_Constructed("uninit", XXH3_64_uninit(mem), NoPolicy)
  /\ Called("uninit", Unit)

Do_XXH3_64_new ==
  /\ ~panicked /\ kind = "none"
  /\ \E mem \in Garbage3 : \E r \in XXH3_64_new(mem) :
       XXH3_Constructed("new", r, Xxh3DefaultReset)
  /\ Called("new", Unit)

\* impl Default for XXH3_64
Do_XXH3_64_default ==
  /\ ~panicked /\ kind = "none"
  /\ \E mem \in Garbage3 : \E r \in XXH3_64_new(mem) :
       XXH3_Constructed("new", r, Xxh3DefaultReset)
  /\ Called("default", Unit)

Do_XXH3_64_reset ==
  /\ ~panicked /\ kind = "XXH3_64"
  /\ \E reset \in Xxh3Policies : \E r \in XXH3_64_reset(state, reset) :
       WasReset(r, reset, r.wrote)
  /\ Called("reset", Unit)

Do_XXH3_64_finish ==
  /\ ~panicked /\ kind = "XXH3_64"
  /\ LET r == XXH3_64_finish(state)
     IN /\ state' = r.st
        /\ Called("finish", U64(r.ret))
  /\ UNCHANGED <<kind, via, init, valid, policy, asked, prior, written, rc, panicked>>

Do_XXH3_64_write ==
  /\ ~panicked /\ kind = "XXH3_64"
  /\ \E input \in Slices :
       /\ Len(written) + Len(input) <= MaxLen
       /\ LET r == XXH3_64_write(state, input)
          IN /\ state' = r.st
             /\ rc' = r.rc
             /\ panicked' = r.panic
       /\ written' = written \o input
       /\ arg' = Len(input)
  /\ lastOp' = "write"
  /\ prevFinish' = (lastOp = "finish")
  /\ ret' = Unit
  /\ UNCHANGED <<debug, kind, via, init, valid, policy, asked, prior>>

\* the hasher goes out of scope
Drop ==
  /\ ~panicked /\ kind # "none"
  /\ kind' = "none" /\ via' = "none" /\ state' = NoState
  /\ init' = FALSE /\ valid' = FALSE /\ policy' = NoPolicy /\ asked' = NoPolicy
  /\ prior' = NoPrior
  /\ written' = << >> /\ rc' = XXH_OK
  /\ Called("drop", Unit)
  /\ UNCHANGED panicked

\* a one-shot call: it takes no hasher and touches none, so it is taken while
\* the caller holds none
OneShot(op, input, result) ==
  /\ kind = "none"
  /\ lastOp' = op
  /\ prevFinish' = (lastOp = "finish")
  /\ arg' = Len(input)
  /\ ret' = result
  /\ rc' = XXH_OK
  /\ UNCHANGED <<debug, kind, via, state, init, valid, policy, asked, prior, written, panicked>>

Do_xxh32 ==
  /\ ~panicked
  /\ \E input \in Slices, seed \in Seeds :
       OneShot("xxh32", input, [tag |-> "u32", val |-> xxh32(input, seed)])

Do_xxh64 ==
  /\ ~panicked
  /\ \E input \in Slices, seed \in Seeds :
       OneShot("xxh64", input, U64(xxh64(input, seed)))

Do_xxh3_64 ==
  /\ ~panicked
  /\ \E input \in Slices : OneShot("xxh3_64", input, U64(xxh3_64(input)))

Do_xxh3_128 ==
  /\ ~panicked
  /\ \E input \in Slices :
       OneShot("xxh3_128", input, [tag |-> "u128", val |-> xxh3_128(input)])

Next ==
  \/ Do_XXH64_uninit \/ Do_XXH64_new \/ Do_XXH64_default
  \/ Do_XXH64_reset \/ Do_XXH64_finish \/ Do_XXH64_write
  \/ Do_XXH3_64_uninit \/ Do_XXH3_64_new \/ Do_XXH3_64_default
  \/ Do_XXH3_64_reset \/ Do_XXH3_64_finish \/ Do_XXH3_64_write
  \/ Drop
  \/ Do_xxh32 \/ Do_xxh64 \/ Do_xxh3_64 \/ Do_xxh3_128

Spec == Init /\ [][Next]_vars

(***************************************************************************)
(* What the claims speak of.                                               *)
(***************************************************************************)
Alive == kind # "none"
TotalLen == IF kind = "XXH64" THEN state.total_len ELSE state.totalLen
ZeroMem64 == [total_len |-> 0, v |-> [i \in 1 .. StripeLen |-> 0], mem |-> << >>, seed |-> 0]
ZeroMem3 ==
  [totalLen |-> 0, acc |-> [i \in 1 .. StripeLen |-> 0], buffer |-> << >>,
   seed |-> 0, secret |-> [i \in 1 .. XXH3_SECRET_SIZE_MIN |-> 0]]
ShortSecretAsked == asked.tag = "Secret" /\ Len(asked.secret) < XXH3_SECRET_SIZE_MIN

\* the one-shot hash of bytes b under policy p
OneShotDigest(p, b) ==
  CASE p.tag = "Seed64" -> xxh64(b, p.seed)
    [] p.tag = "Default" -> xxh3_64(b)
    [] p.tag = "Seeded" -> sys_XXH3_64bits_withSeed(b, Len(b), p.seed)
    [] p.tag = "Secret" -> sys_XXH3_64bits_withSecret(b, Len(b), p.secret)

\* the digest of a hasher constructed just now, given policy p and fed b at once
FreshDigest(p, b) ==
  IF p.tag = "Seed64"
  THEN XXH64_finish(XXH64_write(XXH64_new(ZeroMem64, p.seed).st, b).st).ret
  ELSE LET made == CHOOSE r \in XXH3_64_new(ZeroMem3) : TRUE
           set == IF p.tag = "Default" THEN made
                  ELSE CHOOSE r \in XXH3_64_reset(made.st, p) : r.wrote
       IN XXH3_64_finish(XXH3_64_write(set.st, b).st).ret

\* C1: a hasher from new, fed any chunks (empty ones too), finishes with the
\* one-shot hash of the concatenation of the chunks.
C1_ChunkingInvariance ==
  (Alive /\ via = "new" /\ ~prior.any /\ lastOp = "finish")
    => ret = U64(OneShotDigest(policy, written))

C1_Witness ==
  /\ Alive /\ via = "new" /\ ~prior.any /\ lastOp = "finish"
  /\ Len(written) = MaxLen /\ MaxLen > MaxChunk /\ MaxLen > StripeLen

\* C2: a finish step leaves the streaming state as it was, and a finish that
\* follows a finish returns the same digest.
C2_FinishKeepsState ==
  [][(lastOp' = "finish" /\ init)
       => (state' = state /\ written' = written
           /\ (lastOp = "finish" => ret' = ret))]_vars

C2_Witness ==
  /\ lastOp = "finish" /\ prevFinish /\ init /\ Len(written) > StripeLen

\* C3: after a reset that succeeded, whatever came before it, the digest of
\* the bytes written since is the digest of a hasher constructed just now with
\* the same policy and fed the same bytes.
C3_ResetIsFresh ==
  (Alive /\ init /\ valid /\ prior.any /\ lastOp = "finish")
    => ret = U64(FreshDigest(policy, written))

C3_Witness ==
  /\ Alive /\ init /\ valid /\ lastOp = "finish"
  /\ prior.any /\ prior.dirty /\ prior.differs
  /\ Len(written) > StripeLen

C7_SeedZeroIsDefault ==
  (kind = "XXH3_64" /\ init /\ valid /\ policy = Seeded(0) /\ lastOp = "finish")
    => ret = U64(FreshDigest(Xxh3DefaultReset, written))

C7_Witness ==
  /\ kind = "XXH3_64" /\ init /\ valid /\ policy = Seeded(0) /\ lastOp = "finish"
  /\ prior.dirty /\ prior.differs /\ Len(written) > StripeLen

\* C8: a write on an initialized hasher, of any length, ends with XXH_OK and
\* no failed assertion and leaves the hasher initialized; a one-shot call
\* returns a digest for every length.
C8_HashingNeverFails ==
  /\ (lastOp = "write" /\ init) => (rc = XXH_OK /\ ~panicked /\ Alive)
  /\ (lastOp \in {"xxh32", "xxh64", "xxh3_64"}) => (ret.val \in Word /\ ~panicked)
  /\ (lastOp = "xxh3_128") => (ret.val \in 0 .. (W * W - 1) /\ ~panicked)

C8_Witness ==
  /\ lastOp = "write" /\ init /\ arg = 0 /\ debug /\ rc = XXH_OK /\ ~panicked

\* C9: the length counter of an initialized state is the number of bytes
\* written since the last reset; it is zero right after a reset.
C9_TotalLength ==
  /\ (Alive /\ init) => TotalLen = Len(written)
  /\ (Alive /\ valid /\ lastOp \in {"reset", "new", "default"}) => TotalLen = 0

C9_Witness ==
  /\ Alive /\ init /\ prior.dirty /\ lastOp = "finish" /\ Len(written) = MaxLen

====
